---- MODULE Spec2Model ----
(***************************************************************************)
(* Ghostbuster (src/ghostbuster.py): a Streamlit script that is run from   *)
(* top to bottom once per user interaction.  The session state             *)
(* (st.session_state) survives between runs; everything else is local to   *)
(* one run.  A run is modelled section by section, in source order:        *)
(*   initial sweep -> periodic sweep -> candidate display -> data logging  *)
(*   -> map display -> chase mode (with its polling loop).                 *)
(* Data frames are modelled as a column flag plus the sequence of rows,    *)
(* powers and frequencies as integers, time.time() as an integer clock.    *)
(***************************************************************************)
EXTENDS Integers, Sequences, FiniteSets

VARIABLES
    candidates,      \* st.session_state["candidates"]
    has_last_sweep,  \* "last_sweep" in st.session_state
    last_sweep,      \* st.session_state["last_sweep"] (0 while unset)
    history,         \* st.session_state["history"]
    lat,             \* st.session_state lat/lon (one value per position)
    last_lat,        \* st.session_state last_lat/last_lon ("unset" before the first map)
    map_colors,      \* circle colours of the cached st.session_state["map_html"]
    clock,           \* time.time()
    pc,              \* section of the script the current run is at ("idle": no run)
    chase_mode,      \* line 30, the value of the chase button in this run
    sweep_interval,  \* line 31, the value of the slider in this run
    tool,            \* what the hackrf_sweep invocation of the last sweep section did
    new_candidates,  \* the frame parsed in the last sweep section
    has_selected,    \* "selected_freq" in locals()
    selected_freq,   \* line 116
    stop_button,     \* line 166
    stop_pressed,    \* the operator has pressed "Stop Chase Mode" during the loop
    ticks,           \* number of get_real_time_rssi measurements taken so far
    after_stop,      \* measurements started after the operator pressed stop
    uncaught,        \* an exception escaped a section of the script
    parse_failed,    \* parse_sweep_data reported "Parse Error" in the last sweep section
    sweep_file       \* content of the sweep CSV file handed to parse_sweep_data

vars == <<candidates, has_last_sweep, last_sweep, history, lat, last_lat, map_colors,
          clock, pc, chase_mode, sweep_interval, tool, new_candidates, has_selected,
          selected_freq, stop_button, stop_pressed, ticks, after_stop, uncaught,
          parse_failed, sweep_file>>

session == <<candidates, has_last_sweep, last_sweep, history, lat, last_lat, map_colors>>
chase == <<has_selected, selected_freq, stop_button, stop_pressed, ticks, after_stop>>

-----------------------------------------------------------------------------
(* Bounds of the model *)

MaxRows == 3     \* rows in one sweep file
MaxTime == 31    \* last clock value
MaxTicks == 3    \* measurements in one session

(* Program constants *)

Threshold == -60       \* line 69
StrongAbove == -50     \* line 144
ModerateAbove == -60   \* line 144
FailedRssi == -100     \* line 93

\* the slider of line 31 ranges over 5..60 with default 30
SweepIntervals == {5, 30}
\* seconds that pass between two runs
TimeSteps == {5, 26}
\* what get_real_time_rssi computes when the measurement succeeds
MeasuredPowers == {-60, -55, -50, -45}
Positions == {"default", "fix"}

Row(s, e, p) == [start_freq |-> s, end_freq |-> e, dbm |-> p]

\* rows hackrf_sweep may write
SweepRows ==
    { Row(100, 101, -55), Row(100, 101, -65), Row(100, 101, -40),
      Row(100, 102, -50), Row(200, 201, -40), Row(200, 201, -60) }

SeqsUpTo(S, n) == UNION { [1..k -> S] : k \in 0..n }

\* a sweep file: readable text of rows, or bytes read_csv cannot decode
SweepOutputs ==
    { [readable |-> TRUE, lines |-> l] : l \in SeqsUpTo(SweepRows, MaxRows) }
        \cup { [readable |-> FALSE, lines |-> <<>>] }

NoFile == [readable |-> FALSE, lines |-> <<>>]

-----------------------------------------------------------------------------
(* pandas frames *)

\* pd.DataFrame()
EmptyFrame == [cols |-> FALSE, rows |-> <<>>]

\* DataFrame.empty: an axis of length 0
IsEmpty(df) == ~df.cols \/ df.rows = <<>>

Returned(v) == [raised |-> FALSE, value |-> v]
Raised == [raised |-> TRUE, value |-> EmptyFrame]

\* pd.concat([a, b])
concat(a, b) == [cols |-> a.cols \/ b.cols, rows |-> a.rows \o b.rows]

RECURSIVE KeepFirst(_, _)
KeepFirst(rows, seen) ==
    IF rows = <<>> THEN <<>>
    ELSE IF Head(rows).start_freq \in seen THEN KeepFirst(Tail(rows), seen)
    ELSE <<Head(rows)>> \o KeepFirst(Tail(rows), seen \cup {Head(rows).start_freq})

\* faulty variant: duplicates are kept
drop_duplicates_none(df) == Returned(df)

\* df.drop_duplicates(subset=["start_freq"]): an empty frame is returned as it is,
\* a missing column raises KeyError, else the first row of each start_freq is kept
drop_duplicates(df) ==
    IF IsEmpty(df) THEN Returned(df)
    ELSE IF ~df.cols THEN Raised
    ELSE Returned([cols |-> TRUE, rows |-> KeepFirst(df.rows, {})])

-----------------------------------------------------------------------------
(* HackRF functions, lines 53-93 *)

ToolOutcomes == {"ok", "nonzero", "timeout", "missing"}
\* the outcomes in which hackrf_sweep did not complete a sweep
ToolFailures == {"nonzero", "timeout", "missing"}

\* run_hackrf_sweep: subprocess.run without check=True raises on a timeout
\* (TimeoutExpired) and on a missing executable (FileNotFoundError) only
run_hackrf_sweep(outcome) == outcome \notin {"timeout", "missing"}

\* pd.read_csv raises on an empty file (EmptyDataError) and on undecodable bytes
read_csv_raises(file) == ~file.readable \/ file.lines = <<>>

GroupKeys(lines) == { <<lines[i].start_freq, lines[i].end_freq>> : i \in DOMAIN lines }

KeyLess(a, b) == a[1] < b[1] \/ (a[1] = b[1] /\ a[2] < b[2])

RECURSIVE SortKeys(_)
SortKeys(K) ==
    IF K = {} THEN <<>>
    ELSE LET m == CHOOSE k \in K : \A o \in K \ {k} : KeyLess(k, o)
         IN  <<m>> \o SortKeys(K \ {m})

GroupDbm(lines, key) ==
    { lines[i].dbm : i \in { j \in DOMAIN lines :
                             <<lines[j].start_freq, lines[j].end_freq>> = key } }

SetMax(S) == CHOOSE m \in S : \A x \in S : x <= m

\* df.groupby(["start_freq", "end_freq"]).agg({"dbm": "max"}).reset_index():
\* one row per group, in key order
groupby_max(lines) ==
    LET keys == SortKeys(GroupKeys(lines))
    IN  [i \in 1..Len(keys) |->
            Row(keys[i][1], keys[i][2], SetMax(GroupDbm(lines, keys[i])))]

AboveThreshold(r) == r.dbm > Threshold

SetMin(S) == CHOOSE m \in S : \A x \in S : m <= x

\* faulty variant: the exception of read_csv is not caught
parse_sweep_data_nocatch(file) ==
    IF read_csv_raises(file) THEN Raised
    ELSE Returned([cols |-> TRUE,
                   rows |-> SelectSeq(groupby_max(file.lines), AboveThreshold)])

\* faulty variant: the group's minimum instead of its maximum
parse_sweep_data_min(file) ==
    IF read_csv_raises(file) THEN Returned(EmptyFrame)
    ELSE LET keys == SortKeys(GroupKeys(file.lines))
             mins == [i \in 1..Len(keys) |->
                        Row(keys[i][1], keys[i][2], SetMin(GroupDbm(file.lines, keys[i])))]
         IN  Returned([cols |-> TRUE, rows |-> SelectSeq(mins, AboveThreshold)])

\* parse_sweep_data: any exception is reported and pd.DataFrame() returned
parse_sweep_data(file) ==
    IF read_csv_raises(file) THEN Returned(EmptyFrame)
    ELSE Returned([cols |-> TRUE,
                   rows |-> SelectSeq(groupby_max(file.lines), AboveThreshold)])

\* what one sweep file can make parse_sweep_data do
ParseOutcomes ==
    { [failed |-> read_csv_raises(f), ret |-> parse_sweep_data(f)] : f \in SweepOutputs }

\* get_real_time_rssi: the computed power, or -100 when anything raised
RssiOutcomes == { [ok |-> TRUE, power |-> p] : p \in MeasuredPowers }
                    \cup { [ok |-> FALSE, power |-> 0] }

get_real_time_rssi(m) == IF m.ok THEN m.power ELSE FailedRssi

\* line 109
merge_candidates(existing, new) == drop_duplicates(concat(existing, new))

\* faulty variant: any elapsed time triggers the sweep
PeriodicDue_any(now, last, interval) == (now - last) > 0

\* line 105
PeriodicDue(now, last, interval) == (now - last) > interval

\* faulty variant: the boundaries belong to the upper bucket
Color_inclusive(rssi) ==
    IF rssi >= StrongAbove THEN "green"
    ELSE IF rssi >= ModerateAbove THEN "orange"
    ELSE "red"

\* line 144
Color(rssi) ==
    IF rssi > StrongAbove THEN "green"
    ELSE IF rssi > ModerateAbove THEN "orange"
    ELSE "red"

\* generate_map: one circle per row of the history
generate_map(data) == [i \in 1..Len(data) |-> Color(data[i].rssi)]

-----------------------------------------------------------------------------
(* The session: one script run per interaction *)

Init ==
    /\ candidates = EmptyFrame          \* line 96
    /\ has_last_sweep = FALSE
    /\ last_sweep = 0
    /\ history = <<>>                   \* line 121
    /\ lat = "default"                  \* lines 46-47
    /\ last_lat = "unset"
    /\ map_colors = <<>>
    /\ clock = 0
    /\ pc = "idle"
    /\ chase_mode = FALSE
    /\ sweep_interval = 30
    /\ tool = "none"
    /\ new_candidates = EmptyFrame
    /\ has_selected = FALSE
    /\ selected_freq = 0
    /\ stop_button = FALSE
    /\ stop_pressed = FALSE
    /\ ticks = 0
    /\ after_stop = 0
    /\ uncaught = FALSE
    /\ parse_failed = FALSE
    /\ sweep_file = NoFile

\* time passes between two runs
Tick ==
    /\ pc = "idle"
    /\ \E d \in TimeSteps :
          /\ clock + d <= MaxTime
          /\ clock' = clock + d
    /\ UNCHANGED <<session, pc, chase_mode, sweep_interval, tool, new_candidates,
                   chase, uncaught, parse_failed, sweep_file>>

\* lines 28-47: an interaction starts a run; the widgets and the browser location
\* are read
StartRun ==
    /\ pc = "idle"
    /\ pc' = "initial"
    /\ chase_mode' \in BOOLEAN
    /\ sweep_interval' \in SweepIntervals
    /\ \E location \in {"none"} \cup (Positions \ {"default"}) :
          lat' = IF location = "none" THEN lat ELSE location
    /\ tool' = "none"
    /\ new_candidates' = EmptyFrame
    /\ parse_failed' = FALSE
    /\ has_selected' = FALSE
    /\ selected_freq' = 0
    /\ UNCHANGED <<candidates, has_last_sweep, last_sweep, history, last_lat, map_colors,
                   clock, stop_button, stop_pressed, ticks, after_stop, uncaught,
                   sweep_file>>

\* lines 95-101
InitialSweep ==
    /\ pc = "initial"
    /\ IF ~has_last_sweep
       THEN \E outcome \in ToolOutcomes, parse \in ParseOutcomes :
              /\ tool' = outcome
              /\ IF run_hackrf_sweep(outcome)
                 THEN /\ parse_failed' = parse.failed
                      /\ IF parse.ret.raised
                         THEN /\ uncaught' = TRUE
                              /\ pc' = "idle"
                              /\ UNCHANGED <<candidates, has_last_sweep, last_sweep>>
                         ELSE /\ candidates' = parse.ret.value
                              /\ has_last_sweep' = TRUE
                              /\ last_sweep' = clock
                              /\ pc' = "periodic"
                              /\ UNCHANGED uncaught
                 ELSE /\ pc' = "periodic"
                      /\ UNCHANGED <<candidates, has_last_sweep, last_sweep, uncaught,
                                     parse_failed>>
       ELSE /\ pc' = "periodic"
            /\ UNCHANGED <<candidates, has_last_sweep, last_sweep, uncaught, tool,
                           parse_failed>>
    /\ UNCHANGED <<history, lat, last_lat, map_colors, clock, chase_mode, sweep_interval,
                   new_candidates, chase, sweep_file>>

\* lines 103-110
PeriodicSweep ==
    /\ pc = "periodic"
    /\ IF has_last_sweep /\ PeriodicDue(clock, last_sweep, sweep_interval)
       THEN \E outcome \in ToolOutcomes, parse \in ParseOutcomes :
              /\ tool' = outcome
              /\ IF run_hackrf_sweep(outcome)
                 THEN LET merged == merge_candidates(candidates, parse.ret.value)
                      IN  /\ parse_failed' = parse.failed
                          /\ IF parse.ret.raised \/ merged.raised
                             THEN /\ uncaught' = TRUE
                                  /\ pc' = "idle"
                                  /\ UNCHANGED <<candidates, last_sweep, new_candidates>>
                             ELSE /\ new_candidates' = parse.ret.value
                                  /\ candidates' = merged.value
                                  /\ last_sweep' = clock
                                  /\ pc' = "display"
                                  /\ UNCHANGED uncaught
                 ELSE /\ pc' = "display"
                      /\ UNCHANGED <<candidates, last_sweep, new_candidates, uncaught,
                                     parse_failed>>
       ELSE /\ tool' = "none"
            /\ parse_failed' = FALSE
            /\ pc' = "display"
            /\ UNCHANGED <<candidates, last_sweep, new_candidates, uncaught>>
    /\ UNCHANGED <<has_last_sweep, history, lat, last_lat, map_colors, clock, chase_mode,
                   sweep_interval, chase, sweep_file>>

\* lines 112-118: selected_freq exists only when there are candidates.  Nothing
\* after line 110 reads the slider or the locals of the sweep sections: they are
\* dropped here
DisplayCandidates ==
    /\ pc = "display"
    /\ pc' = "logging"
    /\ IF ~IsEmpty(candidates)
       THEN \E i \in DOMAIN candidates.rows :
              /\ selected_freq' = candidates.rows[i].start_freq
              /\ has_selected' = TRUE
       ELSE UNCHANGED <<has_selected, selected_freq>>
    /\ sweep_interval' = 30
    /\ tool' = "none"
    /\ new_candidates' = EmptyFrame
    /\ parse_failed' = FALSE
    /\ UNCHANGED <<session, clock, chase_mode, stop_button, stop_pressed, ticks,
                   after_stop, uncaught, sweep_file>>

\* lines 120-132
DataLogging ==
    /\ pc = "logging"
    /\ pc' = "map"
    /\ IF chase_mode /\ has_selected
       THEN /\ ticks < MaxTicks
            /\ \E m \in RssiOutcomes :
                  history' = Append(history, [lat |-> lat, rssi |-> get_real_time_rssi(m),
                                              time |-> clock, freq |-> selected_freq])
            /\ ticks' = ticks + 1
       ELSE UNCHANGED <<history, ticks>>
    /\ UNCHANGED <<candidates, has_last_sweep, last_sweep, lat, last_lat, map_colors,
                   clock, chase_mode, sweep_interval, tool, new_candidates, has_selected,
                   selected_freq, stop_button, stop_pressed, after_stop, uncaught,
                   parse_failed, sweep_file>>

\* lines 154-160: the map is drawn again only when the position changed
MapDisplay ==
    /\ pc = "map"
    /\ pc' = "chase"
    /\ IF last_lat = "unset" \/ last_lat # lat
       THEN /\ map_colors' = generate_map(history)
            /\ last_lat' = lat
       ELSE UNCHANGED <<map_colors, last_lat>>
    /\ UNCHANGED <<candidates, has_last_sweep, last_sweep, history, lat, clock,
                   chase_mode, sweep_interval, tool, new_candidates, chase, uncaught,
                   parse_failed, sweep_file>>

\* lines 163-166: st.button is False in a run another widget started; without a chase
\* the rest of the script changes nothing of the session and the run ends
ChaseMode ==
    /\ pc = "chase"
    /\ IF chase_mode /\ has_selected
       THEN /\ stop_button' = FALSE
            /\ pc' = "loop"
       ELSE /\ pc' = "idle"
            /\ UNCHANGED stop_button
    /\ UNCHANGED <<session, clock, chase_mode, sweep_interval, tool, new_candidates,
                   has_selected, selected_freq, stop_pressed, ticks, after_stop,
                   uncaught, parse_failed, sweep_file>>

\* lines 167-172: one test of the loop condition and, when it holds, one iteration
ChaseLoop ==
    /\ pc = "loop"
    /\ IF chase_mode /\ ~stop_button
       THEN /\ ticks < MaxTicks
            /\ \E m \in RssiOutcomes : get_real_time_rssi(m) \in Int
            /\ ticks' = ticks + 1
            /\ after_stop' = IF stop_pressed THEN after_stop + 1 ELSE after_stop
            /\ UNCHANGED pc
       ELSE /\ pc' = "idle"
            /\ UNCHANGED <<ticks, after_stop>>
    /\ UNCHANGED <<session, clock, chase_mode, sweep_interval, tool, new_candidates,
                   has_selected, selected_freq, stop_button, stop_pressed, uncaught,
                   parse_failed, sweep_file>>

\* the operator presses "Stop Chase Mode" while the loop runs
PressStop ==
    /\ pc = "loop"
    /\ ~stop_pressed
    /\ stop_pressed' = TRUE
    /\ UNCHANGED <<session, clock, pc, chase_mode, sweep_interval, tool, new_candidates,
                   has_selected, selected_freq, stop_button, ticks, after_stop, uncaught,
                   parse_failed, sweep_file>>

Next ==
    \/ Tick
    \/ StartRun
    \/ InitialSweep
    \/ PeriodicSweep
    \/ DisplayCandidates
    \/ DataLogging
    \/ MapDisplay
    \/ ChaseMode
    \/ ChaseLoop
    \/ PressStop

Spec == Init /\ [][Next]_vars

-----------------------------------------------------------------------------
(* parse_sweep_data on its own: every bounded sweep file is parsed once *)

InitExtract ==
    /\ sweep_file \in SweepOutputs
    /\ pc = "extract"
    /\ candidates = EmptyFrame
    /\ has_last_sweep = FALSE
    /\ last_sweep = 0
    /\ history = <<>>
    /\ lat = "default"
    /\ last_lat = "unset"
    /\ map_colors = <<>>
    /\ clock = 0
    /\ chase_mode = FALSE
    /\ sweep_interval = 30
    /\ tool = "ok"
    /\ new_candidates = EmptyFrame
    /\ has_selected = FALSE
    /\ selected_freq = 0
    /\ stop_button = FALSE
    /\ stop_pressed = FALSE
    /\ ticks = 0
    /\ after_stop = 0
    /\ uncaught = FALSE
    /\ parse_failed = FALSE

\* lines 64-73
Extract ==
    /\ pc = "extract"
    /\ pc' = "extracted"
    /\ LET ret == parse_sweep_data(sweep_file)
       IN  /\ new_candidates' = ret.value
           /\ uncaught' = ret.raised
    /\ parse_failed' = read_csv_raises(sweep_file)
    /\ UNCHANGED <<session, clock, chase_mode, sweep_interval, tool, chase, sweep_file>>

SpecExtract == InitExtract /\ [][Extract]_vars

-----------------------------------------------------------------------------
(* Properties *)

Band(r) == <<r.start_freq, r.end_freq>>
RowsOf(df) == { df.rows[i] : i \in DOMAIN df.rows }
RowsOfBand(df, b) == { i \in DOMAIN df.rows : Band(df.rows[i]) = b }

\* the periodic section of this run has merged new_candidates into candidates
Merged == pc = "display" /\ tool # "none" /\ run_hackrf_sweep(tool)

\* C1: after the periodic merge every band of the new sweep's candidates is stored
\* exactly once and carries the new sweep's peak power.
C1_MergeTakesNewPower ==
    Merged =>
        \A n \in RowsOf(new_candidates) :
            /\ Cardinality(RowsOfBand(candidates, Band(n))) = 1
            /\ \A i \in RowsOfBand(candidates, Band(n)) : candidates.rows[i].dbm = n.dbm

\* C2: once the operator has pressed stop, the chase loop takes at most one more
\* measurement.
C2_StopWithinOneTick == after_stop <= 1

\* C3: the length of the sample log equals the number of measurements (ticks) taken,
\* the iterations of the chase loop included.
C3_LogLengthEqualsTicks == Len(history) = ticks

\* every row of a stored frame sits under the columns it needs
ValidFrame(df) == df.rows # <<>> => df.cols

\* C4: a sweep section whose output cannot be parsed raises nothing: the parse
\* yields the empty frame (the initial sweep stores it, the periodic sweep merges
\* it), no exception escapes, and the stored frame stays one the later sections
\* can read.
C4_UnparsableSweepIsHarmless ==
    /\ ~uncaught
    /\ ValidFrame(candidates)
    /\ (parse_failed /\ pc = "periodic") => (candidates = EmptyFrame /\ has_last_sweep)
    /\ (parse_failed /\ pc = "display") => (new_candidates = EmptyFrame /\ Merged)

\* C4 witness: the periodic sweep parsed nothing while the stored frame was still
\* the column-less pd.DataFrame() of an unparsable initial sweep.
C4_Witness ==
    /\ pc = "display"
    /\ parse_failed
    /\ tool = "ok"
    /\ candidates = EmptyFrame
    /\ ~uncaught

\* C5: a sweep section in which hackrf_sweep failed or timed out leaves the
\* last-sweep timestamp and the stored candidates as they were.
C5_FailedSweepKeepsState ==
    [][(pc \in {"initial", "periodic"} /\ tool' \in ToolFailures)
          => /\ has_last_sweep' = has_last_sweep
             /\ last_sweep' = last_sweep
             /\ candidates' = candidates]_vars

FileBands(file) == { Band(file.lines[i]) : i \in DOMAIN file.lines }
FileDbm(file, b) == { file.lines[i].dbm : i \in { j \in DOMAIN file.lines :
                                                   Band(file.lines[j]) = b } }

\* the parsed frame holds, for each band of the file that has a row satisfying
\* Keep, exactly one row, carrying the band's greatest power, and no other row
ExtractedBy(Keep(_)) ==
    /\ \A b \in FileBands(sweep_file) :
          IF \E p \in FileDbm(sweep_file, b) : Keep(p)
          THEN /\ Cardinality(RowsOfBand(new_candidates, b)) = 1
               /\ \A i \in RowsOfBand(new_candidates, b) :
                     /\ new_candidates.rows[i].dbm \in FileDbm(sweep_file, b)
                     /\ \A p \in FileDbm(sweep_file, b) : p <= new_candidates.rows[i].dbm
          ELSE RowsOfBand(new_candidates, b) = {}
    /\ \A r \in RowsOf(new_candidates) : Band(r) \in FileBands(sweep_file) /\ Keep(r.dbm)

NotBelowThreshold(p) == p >= -60
StrictlyAboveThreshold(p) == p > -60

ScenarioFile ==
    [readable |-> TRUE,
     lines |-> <<Row(100, 101, -55), Row(100, 101, -65), Row(200, 201, -40)>>]

\* C6 as stated: one candidate per band whose maximum is not below -60 dBm.
C6_KeepsNotBelowThreshold ==
    pc = "extracted" => ExtractedBy(NotBelowThreshold)

\* C6 amended: parse_sweep_data returns exactly one candidate per band whose
\* maximum peak power is strictly above -60 dBm, carrying that maximum, and no
\* candidate at or below -60 dBm; the rows (100,101,-55), (100,101,-65),
\* (200,201,-40) give {(100,101)->-55, (200,201)->-40}.
C6_KeepsStrictlyAboveThreshold ==
    pc = "extracted" =>
        /\ ExtractedBy(StrictlyAboveThreshold)
        /\ sweep_file = ScenarioFile =>
              RowsOf(new_candidates) = {Row(100, 101, -55), Row(200, 201, -40)}

\* C6 witness: the scenario's file has been parsed.
C6_Witness ==
    /\ pc = "extracted"
    /\ sweep_file = ScenarioFile
    /\ new_candidates.rows = <<Row(100, 101, -55), Row(200, 201, -40)>>

\* C7: the periodic merge keeps every stored band that the new sweep's candidates
\* do not contain, with its power.
C7_AbsentBandsAreKept ==
    [][(pc = "periodic" /\ Merged')
          => \A e \in RowsOf(candidates) :
                (RowsOfBand(new_candidates', Band(e)) = {}) => e \in RowsOf(candidates')]_vars

\* C8: the periodic section invokes the sweep only if now - last_sweep >= interval,
\* and below the interval it changes neither the candidates nor the timestamp; the
\* first sweep of a session runs whatever the interval; from last_sweep = 0 a run
\* at t = 5 with interval 30 does not sweep and a run at t = 31 does.
C8_SweepOnlyWhenDue ==
    [][/\ (pc = "periodic" /\ tool' # "none")
            => (has_last_sweep /\ clock - last_sweep >= sweep_interval)
       /\ (pc = "periodic" /\ ~(has_last_sweep /\ clock - last_sweep >= sweep_interval))
            => (tool' = "none" /\ UNCHANGED <<candidates, has_last_sweep, last_sweep>>)
       /\ (pc = "initial" /\ ~has_last_sweep) => tool' # "none"
       /\ (pc = "periodic" /\ has_last_sweep /\ last_sweep = 0 /\ sweep_interval = 30)
            => /\ clock = 5 => tool' = "none"
               /\ clock = 31 => tool' # "none"]_vars

\* C8 witness: with last_sweep = 0 and interval 30 the run at t = 31 has invoked the
\* sweep (which timed out, so the timestamp still shows 0).
C8_Witness ==
    /\ pc = "display"
    /\ tool = "timeout"
    /\ has_last_sweep
    /\ last_sweep = 0
    /\ clock = 31
    /\ sweep_interval = 30

\* C9: merging the same new candidates a second time changes nothing, for the
\* stored frame the merge has just produced and for every stored frame and every
\* parse result.
C9_MergeIdempotent ==
    /\ Merged => merge_candidates(candidates, new_candidates) = Returned(candidates)
    /\ \A parse \in ParseOutcomes :
          LET once == merge_candidates(candidates, parse.ret.value)
          IN  merge_candidates(once.value, parse.ret.value) = once

\* C9 witness: a merge of a non-empty sweep into stored candidates that already
\* held one of its bands with another power.
C9_Witness ==
    /\ Merged
    /\ new_candidates.rows # <<>>
    /\ \E n \in RowsOf(new_candidates), c \in RowsOf(candidates) :
          Band(n) = Band(c) /\ n.dbm # c.dbm

ClaimedColor(p) ==
    CHOOSE c \in {"green", "orange", "red"} :
        /\ c = "green" <=> p > -50
        /\ c = "orange" <=> (-50 >= p /\ p > -60)
        /\ c = "red" <=> p <= -60

\* C10: every power falls in exactly one bucket: strong (green) above -50, moderate
\* (orange) from above -60 up to -50, weak (red) at -60 and below; so do the circles
\* of the map drawn from the history.
C10_ColorBuckets ==
    /\ \A p \in MeasuredPowers \cup {FailedRssi} :
          /\ Color(p) \in {"green", "orange", "red"}
          /\ Color(p) = "green" <=> p > -50
          /\ Color(p) = "orange" <=> (-50 >= p /\ p > -60)
          /\ Color(p) = "red" <=> p <= -60
    /\ Color(-50) # "green"
    /\ Color(-60) # "orange"
    /\ \A i \in DOMAIN map_colors : map_colors[i] = ClaimedColor(history[i].rssi)

\* C10 witness: the map shows a sample of exactly -50 dBm as moderate.
C10_Witness ==
    /\ Len(map_colors) = 1
    /\ history[1].rssi = -50
    /\ map_colors[1] = "orange"

====
